---- MODULE Spec2Model ----
(***************************************************************************)
(* Model of the Grand Comics Database talker (src/gcd/gcd.py): the         *)
(* metadata resolution pipeline of GCDTalkerExt with its relational store, *)
(* its structured cache (comictalker.comiccacher.ComicCacher) and the      *)
(* cover page fetch.                                                       *)
(*                                                                         *)
(* Conventions.  A Python str is a sequence of one-character strings, so   *)
(* "" is <<>>.  An optional value (SQL NULL, Python None) is a sequence    *)
(* of length 0 or 1: NULL is <<>>, a present value v is <<v>>.  A field of *)
(* a GCDIssue that the code fills with a list or with something else       *)
(* carries its Python type: [t |-> "list", v |-> ...] or [t |-> "str"].    *)
(* A sqlite3.Row is a record whose DOMAIN is the set of selected columns.  *)
(***************************************************************************)
EXTENDS Integers, Sequences, FiniteSets, TLC

VARIABLES
    db_file,                    \* self.db_file (gcd.py:97, :139)
    download_gui_covers,        \* self.download_gui_covers (gcd.py:99, :137)
    download_tag_covers,        \* self.download_tag_covers (gcd.py:100, :138)
    has_issue_id_type_id_index, \* self.has_issue_id_type_id_index (gcd.py:102)
    store,                      \* the relational store behind sqlite3.connect(self.db_file)
    web,                        \* the cover pages of the website, by issue id
    series_cache,               \* ComicCacher series table, by series id
    issue_cache,                \* ComicCacher issues table, in row order
    search_cache,               \* ComicCacher search results, by search term
    last,                       \* the outcome of the latest call of a public entry point
    steps,                      \* the number of operations so far
    calls                       \* the calls of check_create_index in flight, by caller

vars == <<db_file, download_gui_covers, download_tag_covers, has_issue_id_type_id_index,
          store, web, series_cache, issue_cache, search_cache, last, steps, calls>>

-----------------------------------------------------------------------------
(* Bounds of the model.                                                    *)

\* Most story rows of one issue, most credit rows of one issue or story.
MaxRows == 2

\* Most operations in one behaviour.
MaxSteps == 4

\* The position of the last query, and of the last page fetch, of a call that
\* the environment may make fail.
MaxQueries == 9
MaxFetches == 2

\* The largest issue count a database dump gives the series.
MaxIssueCount == 3

\* The number of concurrent callers of check_create_index.
MaxCallers == 3

-----------------------------------------------------------------------------
(* Python and SQL value helpers.                                           *)

NULL == <<>>
Some(v) == <<v>>
PyList(xs) == [t |-> "list", v |-> xs]
PyStr(s) == [t |-> "str", v |-> s]

NL == <<"\n">>
NLNL == <<"\n", "\n">>
SemiSp == <<";", " ">>
ColonSp == <<":", " ">>

Drop(s, n) == SubSeq(s, n + 1, Len(s))

StartsWith(s, p) == Len(s) >= Len(p) /\ SubSeq(s, 1, Len(p)) = p

\* str.split(sep) for a non-empty separator: "".split(sep) is [""].
RECURSIVE SplitAcc(_, _, _)
SplitAcc(s, sep, cur) ==
    IF s = <<>> THEN <<cur>>
    ELSE IF StartsWith(s, sep) THEN <<cur>> \o SplitAcc(Drop(s, Len(sep)), sep, <<>>)
    ELSE SplitAcc(Tail(s), sep, Append(cur, Head(s)))

Split(s, sep) == SplitAcc(s, sep, <<>>)

\* sep.join(list)
RECURSIVE Join(_, _)
Join(list, sep) ==
    IF list = <<>> THEN <<>>
    ELSE IF Len(list) = 1 THEN list[1]
    ELSE list[1] \o sep \o Join(Tail(list), sep)

\* Flattening of a sequence of sequences.
RECURSIVE Flatten(_)
Flatten(ss) == IF ss = <<>> THEN <<>> ELSE Head(ss) \o Flatten(Tail(ss))

\* Map over a sequence.
MapSeq(F(_), s) == [i \in 1..Len(s) |-> F(s[i])]

\* CASE WHEN col IS NOT NULL AND col != '' THEN col END
CaseWhenNotEmpty(col) == IF col # NULL /\ col[1] # <<>> THEN col ELSE NULL

\* GROUP_CONCAT(x, sep): the non-NULL values joined by sep, NULL when there is none.
GroupConcat(cols, sep) ==
    LET present == SelectSeq(cols, LAMBDA c : c # NULL)
    IN IF present = <<>> THEN NULL
       ELSE Some(Join(MapSeq(LAMBDA c : c[1], present), sep))

\* str(n) and int(s) for the ids of the model (one decimal digit).
Digits == <<"0", "1", "2", "3", "4", "5", "6", "7", "8", "9">>
IntToStr(n) == <<Digits[n + 1]>>
StrToInt(s) == (CHOOSE d \in 1..Len(Digits) : Digits[d] = s[1]) - 1

\* json.dumps / json.loads of a record: the payload is an opaque blob that
\* loads gives back, and a blob that is no JSON document makes loads raise.
Malformed == [json |-> FALSE, rec |-> <<>>]
json_dumps(rec) == [json |-> TRUE, rec |-> rec]
json_ok(data) == data.json
json_loads(data) == data.rec

-----------------------------------------------------------------------------
(* The relational store.  store is a record of tables, each a sequence of  *)
(* rows in table order:                                                    *)
(*   series        [id, name, issue_count, first_issue_id]                 *)
(*   issues        [id, series_id, number, key_date, title, notes]         *)
(*   stories       [id, issue_id, type_id, title, synopsis, genre,         *)
(*                  characters]   (the four text columns are optional)     *)
(*   issue_credits [issue_id, role, name]                                  *)
(*   story_credits [story_id, name, role]                                  *)
(* and has_index, whether the index issue_id_on_type_id exists.            *)

\* gcd_story.type_id of the stories the queries keep (gcd.py:304, :394, :777)
StoryType == 19

\* value LIKE pattern, for the patterns the code builds: a prefix followed by '%'.
Like(value, pattern) == StartsWith(value, SubSeq(pattern, 1, Len(pattern) - 1))

Percent == <<"%">>

\* The type-19 stories of an issue, in table order.
StoriesOf(st, issue_id) ==
    SelectSeq(st.stories, LAMBDA s : s.issue_id = issue_id /\ s.type_id = StoryType)

\* The columns both list queries select (gcd.py:298-299, :320-321).
IssueListColumns(i) ==
    [id |-> i.id, key_date |-> i.key_date, number |-> i.number,
     issue_title |-> i.title, series_id |-> i.series_id]

\* The grouped row of the with-stories list queries (gcd.py:298-305, :388-396).
IssueListRow(st, i) ==
    [id |-> i.id, key_date |-> i.key_date, number |-> i.number,
     issue_title |-> i.title, series_id |-> i.series_id,
     story_titles |->
        GroupConcat(MapSeq(LAMBDA s : CaseWhenNotEmpty(s.title), StoriesOf(st, i.id)), NL)]

\* gcd.py:297-308: the issues of a series that have a type-19 story, one row each.
QuerySeriesIssuesWithStories(st, series_id) ==
    MapSeq(LAMBDA i : IssueListRow(st, i),
           SelectSeq(st.issues,
                     LAMBDA i : i.series_id = series_id /\ StoriesOf(st, i.id) # <<>>))

\* gcd.py:319-327: every issue of a series, issue columns only.
QuerySeriesIssuesWithoutStories(st, series_id) ==
    MapSeq(IssueListColumns, SelectSeq(st.issues, LAMBDA i : i.series_id = series_id))

\* gcd.py:387-400: the issues of a series with a number and a key date pattern
\* that have a type-19 story.
QueryNumYearWithStories(st, series_id, issue_number, pattern) ==
    MapSeq(LAMBDA i : IssueListRow(st, i),
           SelectSeq(st.issues,
                     LAMBDA i : /\ i.series_id = series_id
                                /\ StoriesOf(st, i.id) # <<>>
                                /\ i.number = issue_number
                                /\ Like(i.key_date, pattern)))

\* gcd.py:418-426: the same selection without the story join.
QueryNumYearWithoutStories(st, series_id, issue_number, pattern) ==
    MapSeq(IssueListColumns,
           SelectSeq(st.issues,
                     LAMBDA i : /\ i.series_id = series_id
                                /\ i.number = issue_number
                                /\ Like(i.key_date, pattern)))

\* gcd.py:756-781: the grouped row of one issue with its type-19 stories, or no
\* row.  characters is a bare column of an aggregate query: SQLite takes it from
\* one row of the group, here the pick-th (modulo the size of the group).
QueryIssueWithStories(st, issue_id, pick) ==
    LET found == SelectSeq(st.issues,
                           LAMBDA i : i.id = issue_id /\ StoriesOf(st, i.id) # <<>>)
        i == found[1]
        ss == StoriesOf(st, issue_id)
    IN IF found = <<>> THEN NULL
       ELSE Some([id |-> i.id, key_date |-> i.key_date, number |-> i.number,
                  issue_title |-> i.title, series_id |-> i.series_id,
                  issue_notes |-> i.notes,
                  characters |-> ss[((pick - 1) % Len(ss)) + 1].characters,
                  story_titles |->
                      GroupConcat(MapSeq(LAMBDA s : CaseWhenNotEmpty(s.title), ss), NL),
                  genres |->
                      GroupConcat(MapSeq(LAMBDA s : CaseWhenNotEmpty(s.genre), ss), NL),
                  synopses |->
                      GroupConcat(MapSeq(LAMBDA s : CaseWhenNotEmpty(s.synopsis), ss), NLNL),
                  story_ids |->
                      GroupConcat(MapSeq(LAMBDA s : Some(IntToStr(s.id)), ss), NL)])

\* gcd.py:788-804: the issue columns of one issue, or no row.
QueryIssueWithoutStories(st, issue_id) ==
    LET found == SelectSeq(st.issues, LAMBDA i : i.id = issue_id)
        i == found[1]
    IN IF found = <<>> THEN NULL
       ELSE Some([id |-> i.id, key_date |-> i.key_date, number |-> i.number,
                  issue_title |-> i.title, series_id |-> i.series_id,
                  issue_notes |-> i.notes])

\* gcd.py:711-717: the first issue of a series with a number, or no row.
QueryIssueId(st, series_id, issue_number) ==
    LET found == SelectSeq(st.issues,
                           LAMBDA i : i.series_id = series_id /\ i.number = issue_number)
    IN IF found = <<>> THEN NULL ELSE Some([id |-> found[1].id])

\* gcd.py:656-668 (and :213-223 for the search by name): the series row.
QuerySeries(st, series_id) ==
    LET found == SelectSeq(st.series, LAMBDA s : s.id = series_id)
    IN IF found = <<>> THEN NULL ELSE Some(found[1])

QuerySeriesByName(st, series_name) ==
    SelectSeq(st.series, LAMBDA s : s.name = series_name)

\* gcd.py:518-525 and :538-546: the credit rows of an issue, of a story.
QueryIssueCredits(st, issue_id) ==
    SelectSeq(st.issue_credits, LAMBDA r : r.issue_id = issue_id)

QueryStoryCredits(st, story_id) ==
    SelectSeq(st.story_credits, LAMBDA r : r.story_id = story_id)

-----------------------------------------------------------------------------
(* Errors.  Every error is [kind, code]; code is the sub-kind of a         *)
(* TalkerDataError or TalkerNetworkError and -1 for the other exceptions.  *)

NoErr == [kind |-> "", code |-> -1]
TalkerDataError(code) == [kind |-> "TalkerDataError", code |-> code]
TalkerNetworkError(code) == [kind |-> "TalkerNetworkError", code |-> code]
PyError(kind) == [kind |-> kind, code |-> -1]

-----------------------------------------------------------------------------
(* Row aggregation: _format_gcd_issue.                                     *)

Has(rec, field) == field \in DOMAIN rec

\* Python truth of an optional str: neither None nor "".
Truthy(col) == col # NULL /\ col[1] # <<>>

\* x.split(sep) if <column is selected and passes test> else []
SplitIf(test, col, sep) == IF test THEN PyList(Split(col[1], sep)) ELSE PyList(<<>>)

\* gcd.py:596-621, the complete shape.  row_dict["characters"].split("; ") is
\* evaluated whenever the column is selected: a NULL there is None.split, an
\* AttributeError.
FormatComplete(row) ==
    IF Has(row, "characters") /\ row.characters = NULL
    THEN [err |-> PyError("AttributeError"), v |-> <<>>]
    ELSE [err |-> NoErr,
          v |-> [id |-> row.id,
                 key_date |-> row.key_date,
                 number |-> row.number,
                 issue_title |-> row.issue_title,
                 series_id |-> row.series_id,
                 issue_notes |-> row.issue_notes,
                 characters |-> IF Has(row, "characters")
                                THEN PyList(Split(row.characters[1], SemiSp))
                                ELSE PyStr(<<>>),
                 story_ids |-> SplitIf(Has(row, "story_ids") /\ Truthy(row.story_ids),
                                       row.story_ids, NL),
                 story_titles |-> SplitIf(Has(row, "story_titles") /\ Truthy(row.story_titles),
                                          row.story_titles, NL),
                 genres |-> SplitIf(Has(row, "genres") /\ Truthy(row.genres),
                                    row.genres, NL),
                 synopses |-> SplitIf(Has(row, "synopses") /\ Truthy(row.synopses),
                                      row.synopses, NLNL),
                 alt_image_urls |-> <<>>,
                 credits |-> <<>>,
                 image |-> <<>>]]

\* gcd.py:623-637, the summary shape.
FormatSummary(row) ==
    [err |-> NoErr,
     v |-> [id |-> row.id,
            key_date |-> row.key_date,
            number |-> row.number,
            issue_title |-> row.issue_title,
            series_id |-> row.series_id,
            story_titles |-> SplitIf(Has(row, "story_titles") /\ row.story_titles # NULL,
                                     row.story_titles, NL),
            synopses |-> SplitIf(Has(row, "synopses") /\ row.synopses # NULL,
                                 row.synopses, NL),
            image |-> <<>>,
            alt_image_urls |-> <<>>]]

format_gcd_issue(row, complete) ==
    IF complete THEN FormatComplete(row) ELSE FormatSummary(row)

-----------------------------------------------------------------------------
(* Metadata normalisation: _map_comic_issue_to_metadata.                   *)

\* comicapi GenericMetadata.add_credit, as called at gcd.py:863: a credit with
\* an empty person is dropped, and so is one whose person and role are there
\* already.
add_credit(credits, person, role) ==
    IF person = <<>> THEN credits
    ELSE IF \E i \in 1..Len(credits) : credits[i].person = person /\ credits[i].role = role
    THEN credits
    ELSE Append(credits, [person |-> person, role |-> role])

\* gcd.py:861-863
RECURSIVE AddCredits(_, _)
AddCredits(credits, people) ==
    IF people = <<>> THEN credits
    ELSE AddCredits(add_credit(credits, Head(people).name, Head(people).gcd_role),
                    Tail(people))

\* A title that prefers the story titles to the issue title.
MapTitle_StoryFirst(issue) ==
    IF Has(issue, "story_titles") /\ issue.story_titles.v # <<>>
    THEN Some(Join(issue.story_titles.v, SemiSp))
    ELSE IF issue.issue_title # <<>> THEN Some(issue.issue_title)
    ELSE NULL

\* gcd.py:866-870: md.title, None (NULL) when neither branch assigns it.
MapTitle(issue) ==
    IF issue.issue_title # <<>> THEN Some(issue.issue_title)
    ELSE IF Has(issue, "story_titles") /\ issue.story_titles.v # <<>>
    THEN Some(Join(issue.story_titles.v, SemiSp))
    ELSE NULL

\* gcd.py:886-888: the loop over enumerate(issue["story_titles"]), from index i.
RECURSIVE PairTitles(_, _, _, _)
PairTitles(titles, synopses, i, description) ==
    IF i > Len(titles) THEN description
    ELSE PairTitles(titles, synopses, i + 1,
                    IF titles[i] # <<>> /\ synopses[i] # <<>>
                    THEN description \o titles[i] \o ColonSp \o synopses[i] \o NLNL
                    ELSE description)

\* A description that keeps the notes when the counts differ.
MapDescription_KeepNotes(issue) ==
    IF Len(issue.synopses.v) = Len(issue.story_titles.v)
    THEN PairTitles(issue.story_titles.v, issue.synopses.v, 1, <<>>)
    ELSE issue.issue_notes

\* A description that falls back to the notes when the stories give no text.
MapDescription_NotesWhenEmpty(issue) ==
    LET Described(description) ==
            IF description = <<>> THEN issue.issue_notes ELSE description
    IN Described(IF Len(issue.synopses.v) = Len(issue.story_titles.v)
                 THEN PairTitles(issue.story_titles.v, issue.synopses.v, 1, <<>>)
                 ELSE Join(issue.synopses.v, NLNL))

\* gcd.py:880-890: md.description.  The notes assigned at :880 are overwritten
\* in both branches.
MapDescription(issue) ==
    IF Len(issue.synopses.v) = Len(issue.story_titles.v)
    THEN PairTitles(issue.story_titles.v, issue.synopses.v, 1, <<>>)
    ELSE Join(issue.synopses.v, NLNL)

\* gcd.py:841-910.  issue is a GCDIssue of either shape, series a GCDSeries.
map_comic_issue_to_metadata(issue, series) ==
    [issue_id |-> issue.id,
     series_id |-> series.id,
     issue |-> issue.number,
     series |-> series.name,
     cover_image |-> IF Has(issue, "image") THEN Some(issue.image) ELSE NULL,
     alternate_images |-> IF Has(issue, "alt_image_urls") THEN Some(issue.alt_image_urls) ELSE NULL,
     characters |-> IF Has(issue, "characters") /\ issue.characters.v # <<>>
                    THEN issue.characters.v ELSE <<>>,
     credits |-> IF Has(issue, "credits") THEN AddCredits(<<>>, issue.credits) ELSE <<>>,
     title |-> MapTitle(issue),
     genres |-> IF Has(issue, "genres") THEN Some(issue.genres.v) ELSE NULL,
     issue_count |-> series.count_of_issues,
     description |-> MapDescription(issue),
     key_date |-> issue.key_date]

\* GenericMetadata(): the empty record fetch_comic_data starts from (gcd.py:267, :729).
EmptyMetadata == [empty |-> TRUE]

\* gcd.py:566-589, one ComicSeries per series record.
format_search_results(search_results) ==
    MapSeq(LAMBDA r : [id |-> IntToStr(r.id), name |-> r.name,
                       count_of_issues |-> r.count_of_issues,
                       image_url |-> IF Has(r, "image") THEN r.image ELSE <<>>],
           search_results)

-----------------------------------------------------------------------------
(* Cover images: the parsing half of _find_issue_images.                   *)
(* A cover page is the sequence of the src attributes of its cover_img     *)
(* images in document order, NULL for an image without src.                *)

\* A strip that cuts at the last '?' instead of the first (rsplit("?", 1)[0]).
StripQuery_Last(src) ==
    LET parts == Split(src, <<"?">>)
    IN IF Len(parts) = 1 THEN src
       ELSE Join(SubSeq(parts, 1, Len(parts) - 1), <<"?">>)

\* gcd.py:501: src.split("?")[0]
StripQuery(src) == Split(src, <<"?">>)[1]

\* gcd.py:499-505, the loop over enumerate(img_list) from index i.
RECURSIVE CoverLoop(_, _, _, _)
CoverLoop(img_list, i, cover, variants) ==
    IF i > Len(img_list) THEN [err |-> NoErr, cover |-> cover, variants |-> variants]
    ELSE IF img_list[i] = NULL
    THEN [err |-> PyError("AttributeError"), cover |-> cover, variants |-> variants]
    ELSE IF i = 1 THEN CoverLoop(img_list, i + 1, StripQuery(img_list[i][1]), variants)
    ELSE CoverLoop(img_list, i + 1, cover, Append(variants, StripQuery(img_list[i][1])))

\* gcd.py:479-480, :495-508
ParseCovers(img_list) == CoverLoop(img_list, 1, <<>>, <<>>)

-----------------------------------------------------------------------------
(* The structured cache (comictalker.comiccacher.ComicCacher), as the code *)
(* uses it.  series_cache rows are [id, data, complete], issue_cache rows  *)
(* [id, series_id, data, complete], search_cache rows [term, series_id].   *)
(* A row is written by upsert: replaced in place when its id is there,     *)
(* appended otherwise.                                                     *)

RECURSIVE Upsert(_, _)
Upsert(table, row) ==
    IF table = <<>> THEN <<row>>
    ELSE IF Head(table).id = row.id THEN <<row>> \o Tail(table)
    ELSE <<Head(table)>> \o Upsert(Tail(table), row)

RECURSIVE UpsertAll(_, _)
UpsertAll(table, rows) ==
    IF rows = <<>> THEN table ELSE UpsertAll(Upsert(table, Head(rows)), Tail(rows))

\* cvc.get_series_info(str(series_id), self.id), gcd.py:644
get_series_info(table, series_id) ==
    LET found == SelectSeq(table, LAMBDA r : r.id = series_id)
    IN IF found = <<>> THEN NULL ELSE Some(found[1])

\* cvc.get_issue_info(issue_id, self.id), gcd.py:739
get_issue_info(table, issue_id) ==
    LET found == SelectSeq(table, LAMBDA r : r.id = issue_id)
    IN IF found = <<>> THEN NULL ELSE Some(found[1])

\* cvc.get_series_issues_info(series_id, self.id), gcd.py:277
get_series_issues_info(table, series_id) ==
    SelectSeq(table, LAMBDA r : r.series_id = series_id)

\* cvc.add_issues_info(self.id, [CCIssue(...) ...], complete), gcd.py:342-346, :827-837
add_issues_info(table, issues, series_id, complete) ==
    UpsertAll(table,
              MapSeq(LAMBDA x : [id |-> x.id, series_id |-> series_id,
                                 data |-> json_dumps(x), complete |-> complete],
                     issues))

\* cvc.add_series_info(self.id, CCSeries(...), True), gcd.py:699
add_series_info(table, series, complete) ==
    Upsert(table, [id |-> series.id, data |-> json_dumps(series), complete |-> complete])

\* cvc.get_search_results(self.id, series_name), gcd.py:199: the series rows of
\* the ids stored for the term.
get_search_results(searches, table, term) ==
    LET ids == SelectSeq(searches, LAMBDA r : r.term = term)
    IN Flatten(MapSeq(LAMBDA r : SelectSeq(table, LAMBDA x : x.id = r.series_id), ids))

\* cvc.add_search_results(self.id, series_name, [...], False), gcd.py:250-255: the
\* term's ids are replaced.
add_search_results(searches, term, results) ==
    SelectSeq(searches, LAMBDA r : r.term # term)
        \o MapSeq(LAMBDA x : [term |-> term, series_id |-> x.id], results)

-----------------------------------------------------------------------------
(* One call of an entry point is evaluated on a context c that is threaded *)
(* through the functions of the call:                                      *)
(*   err    the exception in flight, NoErr when there is none              *)
(*   val    the value the last function returned                           *)
(*   log    the relational queries, page fetches and cache writes so far   *)
(*   sc, ic, qc, idx, st   series_cache, issue_cache, search_cache,        *)
(*          has_issue_id_type_id_index and store as the call leaves them   *)
(*   cached, series, written   what fetch_issues_in_series read at         *)
(*          gcd.py:277 and :279 and what add_issues_info was given         *)
(*   inj    the faults of the environment during this call: the faultAt-th *)
(*          query fails with faultKind, the netFail-th page fetch fails    *)
(*          with netKind, and pick is the row a bare column is taken from  *)

Ok(c) == c.err = NoErr

Raise(c, err) == [c EXCEPT !.err = err]

Return(c, v) == [c EXCEPT !.val = v]

Event(ev, what, id) == [ev |-> ev, what |-> what, id |-> id]

Count(log, ev) == Len(SelectSeq(log, LAMBDA e : e.ev = ev))

NewContext(inj) ==
    [err |-> NoErr, val |-> <<>>, log |-> <<>>,
     sc |-> series_cache, ic |-> issue_cache, qc |-> search_cache,
     idx |-> has_issue_id_type_id_index, st |-> store,
     cached |-> <<>>, series |-> NULL, written |-> <<>>,
     failed |-> <<>>, inj |-> inj]

\* cur.execute(...) inside `with sqlite3.connect(self.db_file)` and its
\* `except sqlite3.DataError / sqlite3.Error` (gcd.py:175-180 and alike).
\* sqlite3.connect("") opens an empty temporary database: the schema query on
\* sqlite_master succeeds there and every statement naming a gcd table fails
\* with sqlite3.OperationalError.
\* The statement at position `at` of the log failed with sqlite3.<kind>.
Failure(what, id, kind, at) == [what |-> what, id |-> id, kind |-> kind, at |-> at]

\* The except clauses of a query (gcd.py:175-180 and alike): sub-kind 1 for a
\* sqlite3.DataError, 0 for any other sqlite3.Error.
Except(c, kind, what, id) ==
    Raise([c EXCEPT !.failed = Append(@, Failure(what, id, kind, Len(c.log)))],
          TalkerDataError(IF kind = "DataError" THEN 1 ELSE 0))

\* A query that is executed once more when it fails.
Query_Retry(c, what, id) ==
    LET Again(c2) == [c2 EXCEPT !.log = Append(@, Event("query", what, id))]
        Executed(c1) ==
            IF db_file = "" /\ what # "index_check"
            THEN Again(Except(c1, "OperationalError", what, id))
            ELSE IF Count(c1.log, "query") = c.inj.faultAt
            THEN Again(Except(c1, c.inj.faultKind, what, id))
            ELSE c1
    IN Executed([c EXCEPT !.log = Append(@, Event("query", what, id))])

Query(c, what, id) ==
    LET Executed(c1) ==
            IF db_file = "" /\ what # "index_check"
            THEN Except(c1, "OperationalError", what, id)
            ELSE IF Count(c1.log, "query") = c.inj.faultAt
            THEN Except(c1, c.inj.faultKind, what, id)
            ELSE c1
    IN Executed([c EXCEPT !.log = Append(@, Event("query", what, id))])

\* gcd.py:157-180
check_create_index(c) ==
    LET Created(c2) ==
            IF ~Ok(c2) THEN c2 ELSE [c2 EXCEPT !.idx = TRUE, !.st.has_index = TRUE]
        Checked(c1) ==
            IF ~Ok(c1) THEN c1
            ELSE IF db_file # "" /\ c.st.has_index THEN [c1 EXCEPT !.idx = TRUE]
            ELSE Created(Query(c1, "create_index", 0))
    IN IF c.idx THEN c ELSE Checked(Query(c, "index_check", 0))

\* gcd.py:182-184
check_db_filename_not_empty(c) ==
    IF db_file = "" THEN Raise(c, TalkerDataError(3)) ELSE c

\* The cover page of an issue: no cover images when the site has no page for it.
PageOf(issue_id) == IF issue_id \in DOMAIN web THEN web[issue_id] ELSE <<>>

\* gcd.py:495-508: the page is parsed and the covers are returned.
CoversOfPage(c, parsed) ==
    IF parsed.err # NoErr THEN Raise(c, parsed.err)
    ELSE Return(c, [cover |-> parsed.cover, variants |-> parsed.variants])

\* A fetch that tries the page a second time before it gives up.
find_issue_images_Retry(c, issue_id) ==
    LET Fetched(c1) ==
            IF Count(c1.log, "http") = c.inj.netFail
            THEN Raise([c1 EXCEPT !.log = Append(@, Event("http", "cover", issue_id))],
                       TalkerNetworkError(IF c.inj.netKind = "Timeout" THEN 4 ELSE 0))
            ELSE CoversOfPage(c1, ParseCovers(PageOf(issue_id)))
    IN Fetched([c EXCEPT !.log = Append(@, Event("http", "cover", issue_id))])

\* gcd.py:477-508.  Returns [cover, variants].
find_issue_images(c, issue_id) ==
    LET Fetched(c1) ==
            IF Count(c1.log, "http") = c.inj.netFail
            THEN Raise(c1, TalkerNetworkError(IF c.inj.netKind = "Timeout" THEN 4 ELSE 0))
            ELSE CoversOfPage(c1, ParseCovers(PageOf(issue_id)))
    IN Fetched([c EXCEPT !.log = Append(@, Event("http", "cover", issue_id))])

\* gcd.py:449-475.  Returns the cover.  first_issue_id 0 stands for NULL.
find_series_image(c, series_id) ==
    LET Fetched(c2) == IF ~Ok(c2) THEN c2 ELSE Return(c2, c2.val.cover)
        Queried(c1, row) ==
            IF ~Ok(c1) THEN c1
            ELSE IF row = NULL THEN Raise(c1, PyError("TypeError"))
            ELSE IF row[1].first_issue_id = 0 THEN Return(c1, <<>>)
            ELSE Fetched(find_issue_images(c1, row[1].first_issue_id))
    IN Queried(Query(c, "series_first_issue", series_id), QuerySeries(c.st, series_id))

GCDCredit(name, gcd_role) == [name |-> name, gcd_role |-> gcd_role]

\* gcd.py:537-554: the loop over story_id_list.
RECURSIVE StoryCreditLoop(_, _, _)
StoryCreditLoop(c, story_id_list, credit_results) ==
    IF story_id_list = <<>> THEN Return(c, credit_results)
    ELSE LET Queried(c1, rows) ==
                 IF ~Ok(c1) THEN c1
                 ELSE StoryCreditLoop(c1, Tail(story_id_list),
                                      credit_results
                                          \o MapSeq(LAMBDA r : GCDCredit(r.name, r.role), rows))
         IN Queried(Query(c, "story_credits", StrToInt(Head(story_id_list))),
                    QueryStoryCredits(c.st, StrToInt(Head(story_id_list))))

\* The first occurrence of every element of a sequence.
RECURSIVE Dedup(_, _)
Dedup(xs, seen) ==
    IF xs = <<>> THEN seen
    ELSE Dedup(Tail(xs), IF \E i \in 1..Len(seen) : seen[i] = Head(xs) THEN seen
                         ELSE Append(seen, Head(xs)))

\* A credit merge that drops repeated person/role pairs.
find_issue_credits_Dedup(c, issue_id, story_id_list) ==
    LET Merged(c2) == IF ~Ok(c2) THEN c2 ELSE Return(c2, Dedup(c2.val, <<>>))
        Queried(c1, rows) ==
            IF ~Ok(c1) THEN c1
            ELSE Merged(StoryCreditLoop(c1, story_id_list,
                                        MapSeq(LAMBDA r : GCDCredit(r.name, r.role), rows)))
    IN Queried(Query(c, "issue_credits", issue_id), QueryIssueCredits(c.st, issue_id))

\* gcd.py:510-563.  Returns the credit list.
find_issue_credits(c, issue_id, story_id_list) ==
    LET Queried(c1, rows) ==
            IF ~Ok(c1) THEN c1
            ELSE StoryCreditLoop(c1, story_id_list,
                                 MapSeq(LAMBDA r : GCDCredit(r.name, r.role), rows))
    IN Queried(Query(c, "issue_credits", issue_id), QueryIssueCredits(c.st, issue_id))

-----------------------------------------------------------------------------
(* Series and issue resolution.  The steps of a function are local         *)
(* operators, each taking the context the step before it left.             *)

JSONDecodeError == PyError("JSONDecodeError")

\* gcd.py:644-648: a cached payload is deserialized and returned.
LoadCached(c, data) ==
    IF json_ok(data) THEN Return(c, json_loads(data)) ELSE Raise(c, JSONDecodeError)

\* gcd.py:642-701.  Returns the GCDSeries.
fetch_series_data(c, series_id) ==
    LET Stored(c2, result) ==
            [c2 EXCEPT !.sc = add_series_info(@, result, TRUE),
                       !.log = Append(@, Event("cache_put", "series", result.id)),
                       !.val = result]
        Imaged(c2, row) ==
            IF ~Ok(c2) THEN c2
            ELSE IF row = NULL THEN Raise(c2, PyError("TypeError"))
            ELSE Stored(c2, [id |-> row[1].id,
                             name |-> row[1].name,
                             count_of_issues |-> row[1].issue_count,
                             image |-> c2.val,
                             cover_downloaded |-> download_gui_covers])
        Queried(c1) ==
            IF ~Ok(c1) THEN c1
            ELSE Imaged(IF download_gui_covers THEN find_series_image(c1, series_id)
                        ELSE Return(c1, <<>>),
                        QuerySeries(c.st, series_id))
        Looked(cached_series) ==
            IF cached_series # NULL /\ cached_series[1].complete
            THEN LoadCached(c, cached_series[1].data)
            ELSE Queried(Query(c, "series", series_id))
    IN Looked(get_series_info(c.sc, series_id))

\* gcd.py:748-815: the two queries of a single issue.  Returns the formatted
\* row as an optional value: NULL when neither query has a row, which leaves
\* issue_result unbound.
QueryFullIssue(c, issue_id) ==
    LET Formatted(c1, f) ==
            IF f.err # NoErr THEN Raise(c1, f.err) ELSE Return(c1, Some(f.v))
        Fallback(c2, row2) ==
            IF ~Ok(c2) THEN c2
            ELSE IF row2 # NULL THEN Formatted(c2, format_gcd_issue(row2[1], TRUE))
            ELSE Return(c2, NULL)
        Joined(c1, row1) ==
            IF ~Ok(c1) THEN c1
            ELSE IF row1 # NULL THEN Formatted(c1, format_gcd_issue(row1[1], TRUE))
            ELSE Fallback(Query(c1, "issue_without_stories", issue_id),
                          QueryIssueWithoutStories(c.st, issue_id))
    IN Joined(Query(c, "issue_with_stories", issue_id),
              QueryIssueWithStories(c.st, issue_id, c.inj.pick))

\* An issue stored without the complete flag.
StoreIssue_Incomplete(c, issue_result) ==
    [c EXCEPT !.ic = add_issues_info(@, <<issue_result>>, issue_result.series_id, FALSE),
              !.written = Append(@, issue_result),
              !.log = Append(@, Event("cache_put", "issue", issue_result.id)),
              !.val = issue_result]

\* gcd.py:826-839: the issue is cached as complete and returned.
StoreIssue(c, issue_result) ==
    [c EXCEPT !.ic = add_issues_info(@, <<issue_result>>, issue_result.series_id, TRUE),
              !.written = Append(@, issue_result),
              !.log = Append(@, Event("cache_put", "issue", issue_result.id)),
              !.val = issue_result]

\* A single-issue resolution that caches the issue before it fetches the covers.
fetch_issue_by_issue_id_StoreFirst(c, issue_id) ==
    LET Covered(c4, issue_result) ==
            IF ~Ok(c4) THEN c4
            ELSE StoreIssue(c4, [issue_result EXCEPT !.image = c4.val.cover,
                                                     !.alt_image_urls = c4.val.variants])
        Completed(c3, issue_result) ==
            IF download_gui_covers \/ download_tag_covers
            THEN Covered(find_issue_images(StoreIssue(c3, issue_result), issue_result.id),
                         issue_result)
            ELSE StoreIssue(c3, issue_result)
        Credited(c3, issue_result) ==
            IF ~Ok(c3) THEN c3
            ELSE Completed(c3, [issue_result EXCEPT !.credits = c3.val])
        Queried(c2) ==
            IF ~Ok(c2) THEN c2
            ELSE IF c2.val = NULL THEN Raise(c2, PyError("UnboundLocalError"))
            ELSE Credited(find_issue_credits(c2, issue_id, c2.val[1].story_ids.v), c2.val[1])
        Indexed(c1) == IF ~Ok(c1) THEN c1 ELSE Queried(QueryFullIssue(c1, issue_id))
        Looked(cached_issue) ==
            IF cached_issue # NULL /\ cached_issue[1].complete
            THEN LoadCached(c, cached_issue[1].data)
            ELSE Indexed(check_create_index(c))
    IN Looked(get_issue_info(c.ic, issue_id))

\* gcd.py:737-839.  Returns the GCDIssue.
fetch_issue_by_issue_id(c, issue_id) ==
    LET Covered(c4, issue_result) ==
            IF ~Ok(c4) THEN c4
            ELSE StoreIssue(c4, [issue_result EXCEPT !.image = c4.val.cover,
                                                     !.alt_image_urls = c4.val.variants])
        Completed(c3, issue_result) ==
            IF download_gui_covers \/ download_tag_covers
            THEN Covered(find_issue_images(c3, issue_result.id), issue_result)
            ELSE StoreIssue(c3, issue_result)
        Credited(c3, issue_result) ==
            IF ~Ok(c3) THEN c3
            ELSE Completed(c3, [issue_result EXCEPT !.credits = c3.val])
        Queried(c2) ==
            IF ~Ok(c2) THEN c2
            ELSE IF c2.val = NULL THEN Raise(c2, PyError("UnboundLocalError"))
            ELSE Credited(find_issue_credits(c2, issue_id, c2.val[1].story_ids.v), c2.val[1])
        Indexed(c1) == IF ~Ok(c1) THEN c1 ELSE Queried(QueryFullIssue(c1, issue_id))
        Looked(cached_issue) ==
            IF cached_issue # NULL /\ cached_issue[1].complete
            THEN LoadCached(c, cached_issue[1].data)
            ELSE Indexed(check_create_index(c))
    IN Looked(get_issue_info(c.ic, issue_id))

\* gcd.py:731-735.  Returns the metadata.
fetch_issue_data_by_issue_id(c, issue_id) ==
    LET Mapped(c2, issue) ==
            IF ~Ok(c2) THEN c2 ELSE Return(c2, map_comic_issue_to_metadata(issue, c2.val))
        Fetched(c1) ==
            IF ~Ok(c1) THEN c1
            ELSE Mapped(fetch_series_data(c1, c1.val.series_id), c1.val)
    IN Fetched(fetch_issue_by_issue_id(c, issue_id))

\* gcd.py:703-729.  Returns the metadata.
fetch_issue_data(c, series_id, issue_number) ==
    LET Queried(c1, row) ==
            IF ~Ok(c1) THEN c1
            ELSE IF row = NULL THEN Raise(c1, PyError("TypeError"))
            ELSE IF row[1].id # 0 THEN fetch_issue_data_by_issue_id(c1, row[1].id)
            ELSE Return(c1, EmptyMetadata)
    IN Queried(Query(c, "issue_id", series_id), QueryIssueId(c.st, series_id, issue_number))

\* gcd.py:262-273.  issue_id and series_id are optional, issue_number a str.
fetch_comic_data(c, issue_id, series_id, issue_number) ==
    LET Checked(c1) ==
            IF ~Ok(c1) THEN c1
            ELSE IF issue_id # NULL THEN fetch_issue_data_by_issue_id(c1, issue_id[1])
            ELSE IF issue_number # <<>> /\ series_id # NULL
            THEN fetch_issue_data(c1, series_id[1], issue_number)
            ELSE Return(c1, EmptyMetadata)
    IN Checked(check_db_filename_not_empty(c))

\* gcd.py:639-640
fetch_series(c, series_id) ==
    LET Fetched(c1) ==
            IF ~Ok(c1) THEN c1 ELSE Return(c1, format_search_results(<<c1.val>>)[1])
    IN Fetched(fetch_series_data(c, series_id))

-----------------------------------------------------------------------------
(* Issue lists.                                                            *)

\* A re-fetch that keeps the cached record of every issue that has one.
ListResults_MergeCached(c, rows) ==
    MapSeq(LAMBDA record :
              LET hit == SelectSeq(c.cached, LAMBDA x : x.id = record.id /\ json_ok(x.data))
              IN IF hit # <<>> THEN json_loads(hit[1].data)
                 ELSE format_gcd_issue(record, FALSE).v,
           rows)

\* gcd.py:311-331: results, one summary record per row.
ListResults(c, rows) ==
    MapSeq(LAMBDA record : format_gcd_issue(record, FALSE).v, rows)

\* gcd.py:287-351: the re-fetch of fetch_issues_in_series.
RefetchIssuesInSeries(c, series_id) ==
    LET Stored(c4, results) ==
            IF ~Ok(c4) THEN c4
            ELSE [c4 EXCEPT !.ic = add_issues_info(@, results, series_id, FALSE),
                            !.written = results,
                            !.log = Append(@, Event("cache_put", "issues", series_id)),
                            !.val = MapSeq(LAMBDA x : map_comic_issue_to_metadata(x, c4.val),
                                           results)]
        Listed(c3, rows) ==
            IF ~Ok(c3) THEN c3
            ELSE Stored(fetch_series_data(c3, series_id), ListResults(c3, rows))
        Joined(c2, rows1) ==
            IF ~Ok(c2) THEN c2
            ELSE Listed(IF rows1 # <<>> THEN c2
                        ELSE Query(c2, "series_issues_without_stories", series_id),
                        IF rows1 # <<>> THEN rows1
                        ELSE QuerySeriesIssuesWithoutStories(c.st, series_id))
        Indexed(c1) ==
            IF ~Ok(c1) THEN c1
            ELSE Joined(Query(c1, "series_issues_with_stories", series_id),
                        QuerySeriesIssuesWithStories(c.st, series_id))
    IN Indexed(check_create_index(c))

\* A gate that takes any non-empty cached list.
CacheIsValid_NonEmpty(cached_series_issues_result, series) ==
    Len(cached_series_issues_result) > 0

\* gcd.py:282: is the cached issue list returned?
CacheIsValid(cached_series_issues_result, series) ==
    Len(cached_series_issues_result) = series.count_of_issues

\* gcd.py:275-351.  Returns the list of metadata.
fetch_issues_in_series(c, series_id) ==
    LET Gate(c2, cached_series_issues_result, series) ==
            IF CacheIsValid(cached_series_issues_result, series)
            THEN IF \E i \in 1..Len(cached_series_issues_result) :
                       ~json_ok(cached_series_issues_result[i].data)
                 THEN Raise(c2, JSONDecodeError)
                 ELSE Return(c2, MapSeq(LAMBDA x : map_comic_issue_to_metadata(
                                                       json_loads(x.data), series),
                                        cached_series_issues_result))
            ELSE RefetchIssuesInSeries(c2, series_id)
        Resolved(c1) ==
            IF ~Ok(c1) THEN c1
            ELSE Gate([c1 EXCEPT !.series = Some(c1.val)], c1.cached, c1.val)
    IN Resolved(fetch_series_data([c EXCEPT !.cached = get_series_issues_info(c.ic, series_id)],
                                  series_id))

\* str(year) of an optional year
StrOfYear(year) == IF year = NULL THEN <<"N", "o", "n", "e">> ELSE IntToStr(year[1])

\* gcd.py:404-413 and :429-438: the loop over the rows of one series.
RECURSIVE IssueRowLoop(_, _, _, _)
IssueRowLoop(c, rows, series, results) ==
    IF rows = <<>> THEN Return(c, results)
    ELSE LET Continue(c1, issue) ==
                 IF ~Ok(c1) THEN c1
                 ELSE IssueRowLoop(c1, Tail(rows), series,
                                   Append(results, map_comic_issue_to_metadata(issue, series)))
             Covered(c1, issue) ==
                 Continue(c1, IF Ok(c1) THEN [issue EXCEPT !.image = c1.val.cover,
                                                         !.alt_image_urls = c1.val.variants]
                           ELSE issue)
             Formatted(issue) ==
                 IF download_tag_covers THEN Covered(find_issue_images(c, issue.id), issue)
                 ELSE Continue(c, issue)
         IN Formatted(format_gcd_issue(Head(rows), FALSE).v)

\* gcd.py:371-438: the loop over series_id_list.
RECURSIVE SeriesLoop(_, _, _, _, _)
SeriesLoop(c, series_id_list, issue_number, year, results) ==
    IF series_id_list = <<>> THEN Return(c, results)
    ELSE LET vid == Head(series_id_list)
             year_search == IF year # NULL /\ year[1] # 0
                            THEN IntToStr(year[1]) \o Percent ELSE Percent
             Collected(c4) ==
                 IF ~Ok(c4) THEN c4
                 ELSE SeriesLoop(c4, Tail(series_id_list), issue_number, year, c4.val)
             Listed(c3, rows, series) ==
                 IF ~Ok(c3) THEN c3 ELSE Collected(IssueRowLoop(c3, rows, series, results))
             Joined(c2, rows1, series) ==
                 IF ~Ok(c2) THEN c2
                 ELSE Listed(IF rows1 # <<>> THEN c2
                             ELSE Query(c2, "num_year_without_stories", vid),
                             IF rows1 # <<>> THEN rows1
                             ELSE QueryNumYearWithoutStories(c.st, vid, issue_number,
                                                             StrOfYear(year) \o Percent),
                             series)
             Resolved(c1) ==
                 IF ~Ok(c1) THEN c1
                 ELSE Joined(Query(c1, "num_year_with_stories", vid),
                             QueryNumYearWithStories(c.st, vid, issue_number, year_search),
                             c1.val)
         IN Resolved(fetch_series_data(c, vid))

\* gcd.py:353-447.  Returns the list of metadata.
fetch_issues_by_series_issue_num_and_year(c, series_id_list, issue_number, year) ==
    LET Indexed(c1) ==
            IF ~Ok(c1) THEN c1 ELSE SeriesLoop(c1, series_id_list, issue_number, year, <<>>)
    IN Indexed(check_create_index(c))

\* gcd.py:186-260.  Returns the list of ComicSeries.
search_for_series(c, series_name, refresh_cache, literal) ==
    LET Stored(c2, results) ==
            IF ~Ok(c2) THEN c2
            ELSE [c2 EXCEPT !.qc = add_search_results(@, series_name, results),
                            !.sc = UpsertAll(@, MapSeq(LAMBDA x : [id |-> x.id,
                                                                   data |-> json_dumps(x),
                                                                   complete |-> FALSE],
                                                       results)),
                            !.log = Append(@, Event("cache_put", "search", 0)),
                            !.val = format_search_results(results)]
        Checked(c1) ==
            IF ~Ok(c1) THEN c1
            ELSE Stored(Query(c1, "search", 0),
                        MapSeq(LAMBDA record : [id |-> record.id, name |-> record.name,
                                                count_of_issues |-> record.issue_count,
                                                image |-> <<>>],
                               QuerySeriesByName(c.st, series_name)))
        Looked(cached_search_results) ==
            IF ~refresh_cache /\ ~literal /\ Len(cached_search_results) > 0
            THEN IF \E i \in 1..Len(cached_search_results) :
                       ~json_ok(cached_search_results[i].data)
                 THEN Raise(c, JSONDecodeError)
                 ELSE Return(c, format_search_results(
                                    MapSeq(LAMBDA x : json_loads(x.data),
                                           cached_search_results)))
            ELSE Checked(check_db_filename_not_empty(c))
    IN Looked(get_search_results(c.qc, c.sc, series_name))

-----------------------------------------------------------------------------
(* The world of the model: one series with two issues, a configured        *)
(* database path, and the inputs of the calls.                             *)

DbPath == "gcd.sqlite"

SeriesName == <<"S">>

\* Series 1 is in the store, series 2 is not; issues 1 and 2 are, issue 3 is not.
SeriesIds == {1, 2}
IssueIds == {1, 2, 3}

IssueRows ==
    << [id |-> 1, series_id |-> 1, number |-> <<"1">>, key_date |-> <<"1", "-", "5">>,
        title |-> <<>>, notes |-> <<"n">>],
       [id |-> 2, series_id |-> 1, number |-> <<"2">>, key_date |-> <<"2", "-", "5">>,
        title |-> <<"T">>, notes |-> <<>>] >>

Story(id, issue_id, type_id, title, synopsis, characters) ==
    [id |-> id, issue_id |-> issue_id, type_id |-> type_id, title |-> title,
     synopsis |-> synopsis, genre |-> Some(<<"g">>), characters |-> characters]

\* Stories of issue 1: two of type 19, the second without synopsis, and an
\* advertisement (type 2) the queries leave out.
StoriesOfIssue1 ==
    << Story(1, 1, StoryType, Some(<<"A">>), Some(<<"x">>), Some(<<"c", ";", " ", "d">>)),
       Story(2, 1, StoryType, Some(<<"B">>), Some(<<>>), Some(<<"e">>)),
       Story(4, 1, 2, Some(<<"Z">>), Some(<<"z">>), Some(<<>>)) >>

StoriesOfIssue2 ==
    << Story(3, 2, StoryType, Some(<<"C">>), Some(<<"y">>), Some(<<>>)) >>

\* The story tables the store starts from: every issue has stories, only
\* issue 1 has, none has.
StoryTables == {StoriesOfIssue1 \o StoriesOfIssue2, StoriesOfIssue1, <<>>}

IssueCreditRows ==
    << [issue_id |-> 1, role |-> <<"w">>, name |-> <<"p">>],
       [issue_id |-> 2, role |-> <<"w">>, name |-> <<"q">>] >>

StoryCreditRows ==
    << [story_id |-> 1, name |-> <<"p">>, role |-> <<"w">>],
       [story_id |-> 2, name |-> <<"q">>, role |-> <<"a">>],
       [story_id |-> 1, name |-> <<"q">>, role |-> <<"a">>],
       [story_id |-> 3, name |-> <<"p">>, role |-> <<"w">>] >>

MakeStore(issue_count, stories) ==
    [has_index |-> FALSE,
     series |-> << [id |-> 1, name |-> SeriesName, issue_count |-> issue_count,
                    first_issue_id |-> 1] >>,
     issues |-> IssueRows,
     stories |-> stories,
     issue_credits |-> IssueCreditRows,
     story_credits |-> StoryCreditRows]

\* The cover pages of the site: three covers for issue 1, none for issue 2.
CoverPages ==
    (1 :> << Some(<<"u", "?", "1">>), Some(<<"v", "?", "2">>), Some(<<"w">>) >>)
    @@ (2 :> <<>>)

\* The faults of one call: none, or one query fails, or one page fetch fails.
\* A call ends at its first error, so one fault a call is all there is.
NoFault == [faultAt |-> 0, faultKind |-> "", netFail |-> 0, netKind |-> "", pick |-> 1]

\* No fault, and the choice of the row a bare column is taken from.
Picks == {[NoFault EXCEPT !.pick = p] : p \in 1..MaxRows}

\* The q-th or an earlier query fails with a sqlite3.DataError or with another
\* sqlite3.Error; the f-th or an earlier page fetch times out or fails otherwise.
Faults(q, f) ==
    {[NoFault EXCEPT !.faultAt = k, !.faultKind = kind] :
        k \in 1..q, kind \in {"DataError", "OperationalError"}}
    \cup {[NoFault EXCEPT !.netFail = k, !.netKind = kind] :
            k \in 1..f, kind \in {"Timeout", "RequestException"}}

NoCall ==
    [op |-> "", args |-> <<>>, err |-> NoErr, val |-> <<>>, log |-> <<>>,
     cached |-> <<>>, series |-> NULL, written |-> <<>>, failed |-> <<>>,
     repeat |-> FALSE]

\* What a call leaves behind.  repeat: the call before was the same call, it
\* returned, and nothing else happened in between.
Outcome(c, op, args) ==
    [op |-> op, args |-> args, err |-> c.err,
     val |-> IF Ok(c) THEN c.val ELSE <<>>,
     log |-> c.log, cached |-> c.cached, series |-> c.series, written |-> c.written,
     failed |-> c.failed,
     repeat |-> (last.op = op /\ last.args = args /\ last.err = NoErr)]

Commit(c, op, args) ==
    /\ series_cache' = c.sc
    /\ issue_cache' = c.ic
    /\ search_cache' = c.qc
    /\ has_issue_id_type_id_index' = c.idx
    /\ store' = c.st
    /\ last' = Outcome(c, op, args)
    /\ steps' = steps + 1
    /\ UNCHANGED <<calls, db_file, download_gui_covers, download_tag_covers, web>>

-----------------------------------------------------------------------------
(* The state after construction (gcd.py:94-102) and the operations.  F is  *)
(* the set of faults the environment may inject into a call, limit the     *)
(* number of operations of a behaviour.                                    *)

Init ==
    /\ db_file = ""
    /\ download_gui_covers = FALSE
    /\ download_tag_covers = FALSE
    /\ has_issue_id_type_id_index = FALSE
    /\ store \in {MakeStore(MaxIssueCount - 1, stories) : stories \in StoryTables}
    /\ web = CoverPages
    /\ series_cache = <<>>
    /\ issue_cache = <<>>
    /\ search_cache = <<>>
    /\ last = NoCall
    /\ steps = 0
    /\ calls = <<>>

\* gcd.py:133-140
ParseSettings(limit) ==
    \E url \in {"", DbPath}, gui \in BOOLEAN, tag \in BOOLEAN :
        /\ steps < limit
        /\ <<url, gui, tag>> # <<db_file, download_gui_covers, download_tag_covers>>
        /\ db_file' = url
        /\ download_gui_covers' = gui
        /\ download_tag_covers' = tag
        /\ last' = NoCall
        /\ steps' = steps + 1
        /\ UNCHANGED <<calls, has_issue_id_type_id_index, store, web, series_cache, issue_cache,
                       search_cache>>

\* gcd.py:262-273, resolution by issue id.
FetchComicDataById(F, limit) ==
    \E issue_id \in IssueIds, inj \in Picks \cup F :
        /\ steps < limit
        /\ Commit(fetch_comic_data(NewContext(inj), Some(issue_id), NULL, <<>>),
                  "fetch_comic_data", <<"id", issue_id>>)

\* gcd.py:262-273, resolution by series id and issue number, or by nothing.
FetchComicDataByNumber(F, limit) ==
    \E a \in {<<NULL, 0>>, <<Some(1), 1>>, <<Some(1), 3>>}, inj \in Picks \cup F :
        /\ steps < limit
        /\ Commit(fetch_comic_data(NewContext(inj), NULL, a[1],
                                   IF a[2] = 0 THEN <<>> ELSE IntToStr(a[2])),
                  "fetch_comic_data", <<"number", Len(a[1]), a[2]>>)

\* gcd.py:275-351
FetchIssuesInSeries(F, limit) ==
    \E series_id \in SeriesIds, inj \in {NoFault} \cup F :
        /\ steps < limit
        /\ Commit(fetch_issues_in_series(NewContext(inj), series_id),
                  "fetch_issues_in_series", <<series_id>>)

\* gcd.py:639-640
FetchSeries(F, limit) ==
    \E series_id \in SeriesIds, inj \in {NoFault} \cup F :
        /\ steps < limit
        /\ Commit(fetch_series(NewContext(inj), series_id), "fetch_series", <<series_id>>)

\* gcd.py:353-447
FetchIssuesBySeriesIssueNumAndYear(F, limit) ==
    \E n \in 1..2, year \in {NULL, Some(1), Some(2)}, inj \in {NoFault} \cup F :
        /\ steps < limit
        /\ Commit(fetch_issues_by_series_issue_num_and_year(NewContext(inj), <<1>>,
                                                            IntToStr(n), year),
                  "fetch_issues_by_series_issue_num_and_year", <<n, year>>)

\* gcd.py:186-260
SearchForSeries(F, limit) ==
    \E a \in {<<SeriesName, FALSE>>, <<SeriesName, TRUE>>, <<<<"Z">>, FALSE>>},
       inj \in {NoFault} \cup F :
        /\ steps < limit
        /\ Commit(search_for_series(NewContext(inj), a[1], a[2], FALSE),
                  "search_for_series", a)

\* The environment damages one cached payload: what is stored is no longer a
\* JSON document.
CorruptSeriesPayload(limit) ==
    \E i \in 1..Len(series_cache) :
        /\ steps < limit
        /\ series_cache[i].data # Malformed
        /\ series_cache' = [series_cache EXCEPT ![i].data = Malformed]
        /\ last' = NoCall
        /\ steps' = steps + 1
        /\ UNCHANGED <<calls, db_file, download_gui_covers, download_tag_covers,
                       has_issue_id_type_id_index, store, web, issue_cache, search_cache>>

CorruptIssuePayload(limit) ==
    \E i \in 1..Len(issue_cache) :
        /\ steps < limit
        /\ issue_cache[i].data # Malformed
        /\ issue_cache' = [issue_cache EXCEPT ![i].data = Malformed]
        /\ last' = NoCall
        /\ steps' = steps + 1
        /\ UNCHANGED <<calls, db_file, download_gui_covers, download_tag_covers,
                       has_issue_id_type_id_index, store, web, series_cache, search_cache>>

\* The environment replaces the database by a newer dump in which the series
\* has one more issue counted.
UpstreamUpdate(limit) ==
    /\ steps < limit
    /\ store.series[1].issue_count < MaxIssueCount
    /\ store' = [store EXCEPT !.series[1].issue_count = @ + 1]
    /\ last' = NoCall
    /\ steps' = steps + 1
    /\ UNCHANGED <<calls, db_file, download_gui_covers, download_tag_covers,
                   has_issue_id_type_id_index, web, series_cache, issue_cache, search_cache>>

\* The pipeline while every query and every page fetch succeeds.
Next ==
    \/ ParseSettings(MaxSteps)
    \/ FetchComicDataById({}, MaxSteps)
    \/ FetchComicDataByNumber({}, MaxSteps)
    \/ FetchIssuesInSeries({}, MaxSteps)
    \/ FetchSeries({}, MaxSteps)
    \/ FetchIssuesBySeriesIssueNumAndYear({}, MaxSteps)
    \/ SearchForSeries({}, MaxSteps)
    \/ CorruptSeriesPayload(MaxSteps)
    \/ CorruptIssuePayload(MaxSteps)
    \/ UpstreamUpdate(MaxSteps)

Spec == Init /\ [][Next]_vars

\* The pipeline with failing queries and page fetches, one operation shorter.
\* A call of fetch_series runs at most two queries and one page fetch, a search
\* one query, a list call six queries.
FaultNext ==
    \/ ParseSettings(MaxSteps - 1)
    \/ FetchComicDataById(Faults(MaxQueries, MaxFetches), MaxSteps - 1)
    \/ FetchComicDataByNumber(Faults(MaxQueries, MaxFetches), MaxSteps - 1)
    \/ FetchIssuesInSeries(Faults(MaxQueries - 3, MaxFetches - 1), MaxSteps - 1)
    \/ FetchSeries(Faults(MaxQueries - 7, MaxFetches - 1), MaxSteps - 1)
    \/ FetchIssuesBySeriesIssueNumAndYear(Faults(MaxQueries - 3, MaxFetches), MaxSteps - 1)
    \/ SearchForSeries(Faults(MaxQueries - 8, 0), MaxSteps - 1)
    \/ CorruptSeriesPayload(MaxSteps - 1)
    \/ CorruptIssuePayload(MaxSteps - 1)
    \/ UpstreamUpdate(MaxSteps - 1)

FaultSpec == Init /\ [][FaultNext]_vars

-----------------------------------------------------------------------------
(* Specifications of single functions on inputs drawn from bounded sets:   *)
(* the talker is configured, the caches are empty, and one action applies  *)
(* the function.                                                           *)

Configured(st, pages) ==
    /\ db_file = DbPath
    /\ download_gui_covers = FALSE
    /\ download_tag_covers = FALSE
    /\ has_issue_id_type_id_index = FALSE
    /\ store = st
    /\ web = pages
    /\ series_cache = <<>>
    /\ issue_cache = <<>>
    /\ search_cache = <<>>
    /\ last = NoCall
    /\ steps = 0
    /\ calls = <<>>

\* The sequences over S of length at most n.
SeqsUpTo(S, n) == UNION {[1..k -> S] : k \in 0..n}

Apply(c, op, args) ==
    /\ steps = 0
    /\ last' = Outcome(c, op, args)
    /\ steps' = 1
    /\ UNCHANGED <<calls, db_file, download_gui_covers, download_tag_covers,
                   has_issue_id_type_id_index, store, web, series_cache, issue_cache,
                   search_cache>>

\* _find_issue_credits on every credit table of at most MaxRows rows.
CreditPeople == {[name |-> <<"p">>, role |-> <<"w">>], [name |-> <<"q">>, role |-> <<"a">>]}

CreditStores ==
    {[MakeStore(MaxIssueCount - 1, <<>>) EXCEPT
          !.issue_credits = MapSeq(LAMBDA r : [issue_id |-> 1, role |-> r.role,
                                               name |-> r.name], ic),
          !.story_credits = sc] :
        ic \in SeqsUpTo(CreditPeople, MaxRows),
        sc \in SeqsUpTo({[story_id |-> k, name |-> r.name, role |-> r.role] :
                            k \in 1..2, r \in CreditPeople}, MaxRows)}

CreditInit == \E st \in CreditStores : Configured(st, CoverPages)

FindIssueCredits ==
    \E story_id_list \in SeqsUpTo({IntToStr(1), IntToStr(2)}, MaxRows) :
        Apply(find_issue_credits(NewContext(NoFault), 1, story_id_list),
              "find_issue_credits", story_id_list)

CreditSpec == CreditInit /\ [][FindIssueCredits]_vars

\* _find_issue_images on every cover page of at most MaxRows + 1 images.
CoverSources ==
    {Some(<<"u", "?", "1">>), Some(<<"v">>), Some(<<"w", "?", "2", "?", "3">>), NULL}

ImageInit ==
    \E page \in SeqsUpTo(CoverSources, MaxRows + 1) :
        Configured(MakeStore(MaxIssueCount - 1, <<>>), (1 :> page))

FindIssueImages ==
    \E inj \in {NoFault} \cup Faults(0, 1) :
        Apply(find_issue_images(NewContext(inj), 1), "find_issue_images", <<1>>)

ImageSpec == ImageInit /\ [][FindIssueImages]_vars

\* _map_comic_issue_to_metadata on every complete issue record with at most
\* MaxRows story titles and MaxRows synopses.
TitleTexts == {<<>>, <<"A">>, <<"B">>}
SynopsisTexts == {<<>>, <<"x">>, <<"y">>}

IssueRecord(issue_title, issue_notes, story_titles, synopses) ==
    [id |-> 1, key_date |-> <<"1">>, number |-> <<"1">>, issue_title |-> issue_title,
     series_id |-> 1, issue_notes |-> issue_notes,
     characters |-> PyStr(<<>>), story_ids |-> PyList(<<>>),
     story_titles |-> PyList(story_titles), genres |-> PyList(<<>>),
     synopses |-> PyList(synopses),
     alt_image_urls |-> <<>>, credits |-> <<>>, image |-> <<>>]

SeriesRecord ==
    [id |-> 1, name |-> SeriesName, count_of_issues |-> 1, image |-> <<>>,
     cover_downloaded |-> FALSE]

MapInit == Configured(MakeStore(MaxIssueCount - 1, <<>>), CoverPages)

MapComicIssueToMetadata ==
    \E issue_title \in {<<>>, <<"T">>}, issue_notes \in {<<>>, <<"n">>},
       story_titles \in SeqsUpTo(TitleTexts, MaxRows),
       synopses \in SeqsUpTo(SynopsisTexts, MaxRows) :
        LET issue == IssueRecord(issue_title, issue_notes, story_titles, synopses)
        IN Apply(Return(NewContext(NoFault),
                        map_comic_issue_to_metadata(issue, SeriesRecord)),
                 "map_comic_issue_to_metadata", issue)

MapSpec == MapInit /\ [][MapComicIssueToMetadata]_vars

\* _format_gcd_issue on rows in which each of the five story columns is not
\* selected, NULL, the empty string or a text.
StoryColumns == {"characters", "story_ids", "story_titles", "genres", "synopses"}

ColumnValues == {NULL, Some(<<>>), Some(<<"a", "\n", "b">>)}

RowBase ==
    [id |-> 1, key_date |-> <<"1">>, number |-> <<"1">>, issue_title |-> <<"T">>,
     series_id |-> 1, issue_notes |-> <<"n">>]

FormatRows ==
    UNION {{RowBase @@ cols : cols \in [selected -> ColumnValues]} :
              selected \in SUBSET StoryColumns}

FormatInit == Configured(MakeStore(MaxIssueCount - 1, <<>>), CoverPages)

FormatGcdIssue ==
    \E row \in FormatRows, complete \in BOOLEAN :
        LET Formatted(f) ==
                IF f.err # NoErr THEN Raise(NewContext(NoFault), f.err)
                ELSE Return(NewContext(NoFault), f.v)
        IN Apply(Formatted(format_gcd_issue(row, complete)), "format_gcd_issue",
                 <<row, complete>>)

FormatSpec == FormatInit /\ [][FormatGcdIssue]_vars

-----------------------------------------------------------------------------
(* check_create_index run by concurrent callers on one talker, against one *)
(* store.  A call is at one of its statements: "idle" before the test of   *)
(* the flag (gcd.py:159), "select" before the query on sqlite_master       *)
(* (:166), "create" before CREATE INDEX (:172), and "done" or "failed".    *)
(* Every statement is one step; no lock is held between them.              *)

Callers == 1..MaxCallers

IdleCall == [pc |-> "idle", err |-> NoErr, log |-> <<>>]

\* The index may be there from an earlier run, and the flag with it.
IndexInit ==
    /\ db_file = DbPath
    /\ download_gui_covers = FALSE
    /\ download_tag_covers = FALSE
    /\ has_issue_id_type_id_index \in BOOLEAN
    /\ store \in {[MakeStore(MaxIssueCount - 1, <<>>) EXCEPT !.has_index = has_index] :
                     has_index \in BOOLEAN}
    /\ has_issue_id_type_id_index => store.has_index
    /\ web = CoverPages
    /\ series_cache = <<>>
    /\ issue_cache = <<>>
    /\ search_cache = <<>>
    /\ last = NoCall
    /\ steps = 0
    /\ calls = [p \in Callers |-> IdleCall]

\* gcd.py:159: if not self.has_issue_id_type_id_index
ReadFlag(p) ==
    /\ calls[p].pc = "idle"
    /\ calls' = [calls EXCEPT ![p].pc = IF has_issue_id_type_id_index THEN "done"
                                        ELSE "select"]
    /\ UNCHANGED <<db_file, download_gui_covers, download_tag_covers,
                   has_issue_id_type_id_index, store, web, series_cache, issue_cache,
                   search_cache, last, steps>>

\* gcd.py:166-169: the query on sqlite_master, and the flag when the index is there.
SelectIndex(p) ==
    /\ calls[p].pc = "select"
    /\ calls' = [calls EXCEPT ![p].pc = IF store.has_index THEN "done" ELSE "create",
                              ![p].log = Append(@, Event("query", "index_check", 0))]
    /\ has_issue_id_type_id_index' = (has_issue_id_type_id_index \/ store.has_index)
    /\ UNCHANGED <<db_file, download_gui_covers, download_tag_covers, store, web,
                   series_cache, issue_cache, search_cache, last, steps>>

\* gcd.py:172-173 and :178-180: CREATE INDEX fails with sqlite3.OperationalError
\* ("index issue_id_on_type_id already exists") when the index is there.
CreateIndex(p) ==
    /\ calls[p].pc = "create"
    /\ IF store.has_index
       THEN /\ calls' = [calls EXCEPT ![p].pc = "failed",
                                      ![p].err = TalkerDataError(0),
                                      ![p].log = Append(@, Event("query", "create_index", 0))]
            /\ UNCHANGED <<store, has_issue_id_type_id_index>>
       ELSE /\ calls' = [calls EXCEPT ![p].pc = "done",
                                      ![p].log = Append(@, Event("query", "create_index", 0))]
            /\ store' = [store EXCEPT !.has_index = TRUE]
            /\ has_issue_id_type_id_index' = TRUE
    /\ UNCHANGED <<db_file, download_gui_covers, download_tag_covers, web, series_cache,
                   issue_cache, search_cache, last, steps>>

IndexNext == \E p \in Callers : ReadFlag(p) \/ SelectIndex(p) \/ CreateIndex(p)

IndexSpec == IndexInit /\ [][IndexNext]_vars

-----------------------------------------------------------------------------
(* Properties.                                                             *)

IsIssueQuery(e) ==
    e.ev = "query" /\ e.what \in {"series_issues_with_stories", "series_issues_without_stories"}

IssueQueries(log) == SelectSeq(log, IsIssueQuery)

\* The latest call is fetch_issues_in_series and it got its series record.
ListCallWithSeries == last.op = "fetch_issues_in_series" /\ last.series # NULL

\* C1: in fetch_issues_in_series the cached issue list is returned without an
\* issue query exactly when the number of cached entries equals the issue count
\* of the series record; the result is then the cached entries, one metadata
\* record per entry, in cache order.
C1_CacheGate ==
    ListCallWithSeries =>
        LET series == last.series[1]
            equal == Len(last.cached) = series.count_of_issues
        IN /\ equal => IssueQueries(last.log) = <<>>
           /\ (last.err = NoErr /\ ~equal) => IssueQueries(last.log) # <<>>
           /\ (last.err = NoErr /\ equal) =>
                 /\ Len(last.val) = Len(last.cached)
                 /\ \A i \in 1..Len(last.cached) :
                       last.val[i] = map_comic_issue_to_metadata(
                                         json_loads(last.cached[i].data), series)

\* A cached list of two entries was returned without an issue query.
C1_Witness ==
    /\ ListCallWithSeries
    /\ last.err = NoErr
    /\ Len(last.cached) = 2
    /\ last.series[1].count_of_issues = 2
    /\ Len(last.val) = 2
    /\ IssueQueries(last.log) = <<>>

\* The rows the list queries give for a series: the with-stories rows, or the
\* without-stories rows when there are none of the former.
FreshRows(series_id) ==
    IF QuerySeriesIssuesWithStories(store, series_id) # <<>>
    THEN QuerySeriesIssuesWithStories(store, series_id)
    ELSE QuerySeriesIssuesWithoutStories(store, series_id)

\* C2: with fewer cached entries than the issue count, fetch_issues_in_series
\* re-fetches in full: the records it returns and the records it writes to the
\* cache are those of the fresh relational rows, and no cached entry is among them.
C2_FullRefetch ==
    (ListCallWithSeries /\ last.err = NoErr
        /\ Len(last.cached) < last.series[1].count_of_issues) =>
        LET series_id == last.args[1]
            fresh == MapSeq(LAMBDA r : FormatSummary(r).v, FreshRows(series_id))
        IN /\ IssueQueries(last.log) # <<>>
           /\ last.written = fresh
           /\ last.val = MapSeq(LAMBDA x : map_comic_issue_to_metadata(x, last.series[1]),
                                fresh)
           /\ \A i \in 1..Len(fresh) :
                 get_issue_info(issue_cache, fresh[i].id)
                     = Some([id |-> fresh[i].id, series_id |-> series_id,
                             data |-> json_dumps(fresh[i]), complete |-> FALSE])

\* One complete record was cached, the count is two, and the call re-fetched
\* both issues.
C2_Witness ==
    /\ ListCallWithSeries
    /\ last.err = NoErr
    /\ Len(last.cached) = 1
    /\ last.cached[1].complete
    /\ last.series[1].count_of_issues = 2
    /\ Len(last.written) = 2
    /\ Len(last.val) = 2

\* C3: a cached payload that fails deserialization is a cache miss: no call
\* ends with the deserialization error.
C3_MalformedIsMiss == last.err # JSONDecodeError

\* C4: resolving the same issue by id twice in a row, with nothing changed in
\* between, gives the same metadata, and the second call runs no query.
C4_Idempotent ==
    [][(last'.op = "fetch_comic_data" /\ last'.repeat /\ last'.args[1] = "id") =>
           /\ last'.err = NoErr
           /\ last'.val = last.val
           /\ Count(last'.log, "query") = 0]_vars

\* A second resolution in a row of an issue with credits ran no query.
C4_Witness ==
    /\ last.op = "fetch_comic_data"
    /\ last.repeat
    /\ last.args[1] = "id"
    /\ last.err = NoErr
    /\ Count(last.log, "query") = 0
    /\ last.val.credits # <<>>

\* The credits of a sequence of credit rows.
CreditsOf(rows) == MapSeq(LAMBDA r : GCDCredit(r.name, r.role), rows)

RECURSIVE SumLen(_)
SumLen(ss) == IF ss = <<>> THEN 0 ELSE Len(Head(ss)) + SumLen(Tail(ss))

\* C5: the credit list of _find_issue_credits is the issue-level credits
\* followed by the story-level credits of each story id, in the order of the
\* story-id list, nothing dropped: its length is the sum of the lengths.
C5_CreditOrder ==
    (last.op = "find_issue_credits" /\ last.err = NoErr) =>
        LET issue_level == CreditsOf(QueryIssueCredits(store, 1))
            story_ids == last.args
            story_level ==
                [k \in 1..Len(story_ids) |->
                    CreditsOf(QueryStoryCredits(store, StrToInt(story_ids[k])))]
            offset(k) == Len(issue_level) + SumLen(SubSeq(story_level, 1, k - 1))
        IN /\ Len(last.val) = Len(issue_level) + SumLen(story_level)
           /\ SubSeq(last.val, 1, Len(issue_level)) = issue_level
           /\ \A k \in 1..Len(story_ids) :
                 SubSeq(last.val, offset(k) + 1, offset(k) + Len(story_level[k]))
                     = story_level[k]
           /\ story_ids = <<>> => last.val = issue_level

\* Two story ids, credits at both levels, and one credit that occurs twice.
C5_Witness ==
    /\ last.op = "find_issue_credits"
    /\ last.err = NoErr
    /\ Len(last.args) = 2
    /\ QueryIssueCredits(store, 1) # <<>>
    /\ Len(last.val) > Len(QueryIssueCredits(store, 1))
    /\ \E i, j \in 1..Len(last.val) : i < j /\ last.val[i] = last.val[j]

\* A URL with everything from its first '?' removed.
BeforeQuery(url) ==
    IF \E i \in 1..Len(url) : url[i] = "?"
    THEN SubSeq(url, 1, (CHOOSE i \in 1..Len(url) :
                            /\ url[i] = "?"
                            /\ \A j \in 1..i - 1 : url[j] # "?") - 1)
    ELSE url

\* C6: for a fetched page of n cover images with URLs, _find_issue_images gives
\* the first URL as the cover and the other n-1 as the variants in document
\* order, each cut at its first '?'; for n = 0 it gives "" and [] and no error.
C6_Covers ==
    (last.op = "find_issue_images" /\ last.err.kind # "TalkerNetworkError"
        /\ \A i \in 1..Len(web[1]) : web[1][i] # NULL) =>
        LET page == web[1]
            n == Len(page)
        IN /\ last.err = NoErr
           /\ n = 0 => (last.val.cover = <<>> /\ last.val.variants = <<>>)
           /\ n > 0 =>
                 /\ last.val.cover = BeforeQuery(page[1][1])
                 /\ Len(last.val.variants) = n - 1
                 /\ \A i \in 1..n - 1 : last.val.variants[i] = BeforeQuery(page[i + 1][1])

\* Three covers, the second with two '?' in its URL.
C6_Witness ==
    /\ last.op = "find_issue_images"
    /\ last.err = NoErr
    /\ web[1] = << Some(<<"u", "?", "1">>), Some(<<"w", "?", "2", "?", "3">>), Some(<<"v">>) >>
    /\ last.val.cover = <<"u">>
    /\ last.val.variants = << <<"w">>, <<"v">> >>

\* The latest call is a single-issue resolution that ended with the timeout of
\* a cover-page fetch, and the page is the issue's: the fetch of the series
\* image (gcd.py:473) is the one that follows the series_first_issue query.
CoverTimeout ==
    /\ last.op = "fetch_comic_data"
    /\ last.err = TalkerNetworkError(4)
    /\ Len(last.log) >= 2
    /\ last.log[Len(last.log) - 1].what # "series_first_issue"

\* Is there a query `what` for id before position n of the log?
QueriedBefore(log, n, what, id) ==
    \E i \in 1..n - 1 : log[i] = Event("query", what, id)

\* C7: when the fetch of the issue's cover page times out in a single-issue
\* resolution, the call has made exactly one page fetch, the failing one, which
\* is the last thing it did; the issue query, the issue-level credit query and
\* the credit query of every story of the issue precede it, and the call
\* leaves no complete cache entry for the issue.
C7_TimeoutOnce ==
    CoverTimeout =>
        LET log == last.log
            n == Len(log)
            issue_id == log[n].id
            stories == StoriesOf(store, issue_id)
        IN /\ log[n] = Event("http", "cover", issue_id)
           /\ Count(log, "http") = 1
           /\ \/ QueriedBefore(log, n, "issue_with_stories", issue_id) /\ stories # <<>>
              \/ QueriedBefore(log, n, "issue_without_stories", issue_id) /\ stories = <<>>
           /\ QueriedBefore(log, n, "issue_credits", issue_id)
           /\ \A k \in 1..Len(stories) : QueriedBefore(log, n, "story_credits", stories[k].id)
           /\ log[n - 1].what \in {"issue_credits", "story_credits"}
           /\ Count(log, "cache_put") = 0
           /\ \A i \in 1..Len(issue_cache) :
                 issue_cache[i].id = issue_id => ~issue_cache[i].complete

\* The cover fetch of an issue with two stories timed out after the issue and
\* the credits were read.
C7_Witness ==
    /\ CoverTimeout
    /\ last.args[1] = "id"
    /\ Count(last.log, "http") = 1
    /\ Len(SelectSeq(last.log, LAMBDA e : e.what = "story_credits")) = 2
    /\ QueriedBefore(last.log, Len(last.log), "issue_credits", last.args[2])

\* C8: with an empty db_file every call of an entry point ends with
\* TalkerDataError sub-kind 3 and has attempted no relational query.
C8_MissingConfiguration ==
    (db_file = "" /\ last.op # "") =>
        /\ last.err = TalkerDataError(3)
        /\ Count(last.log, "query") = 0

\* Does the request of a fetch_comic_data call name an issue the store lacks?
NoMatch(args) ==
    \/ /\ args[1] = "id"
       /\ \A i \in 1..Len(store.issues) : store.issues[i].id # args[2]
    \/ /\ args[1] = "number"
       /\ args[2] = 1
       /\ args[3] # 0
       /\ QueryIssueId(store, 1, IntToStr(args[3])) = NULL

\* C9: while no query and no fetch fails, fetch_comic_data for an issue id, or
\* a series id and issue number, that matches no issue of the store returns the
\* empty metadata record and raises no error.
C9_NoMatchIsEmpty ==
    (last.op = "fetch_comic_data" /\ db_file = DbPath /\ NoMatch(last.args)) =>
        /\ last.err = NoErr
        /\ last.val = EmptyMetadata

\* Does text t occur in text d?
Occurs(t, d) == \E i \in 1..Len(d) - Len(t) + 1 : SubSeq(d, i, i + Len(t) - 1) = t

\* C10: in _map_comic_issue_to_metadata, with as many synopses as story titles
\* the description is, in index order, "title: synopsis" and two newlines for
\* every index whose title and synopsis are both non-empty; with different
\* counts it is the synopses joined by two newlines, no title occurs in it, and
\* two titles with one synopsis give that synopsis.
C10_Description ==
    last.op = "map_comic_issue_to_metadata" =>
        LET titles == last.args.story_titles.v
            synopses == last.args.synopses.v
            description == last.val.description
            pair == [i \in 1..Len(titles) |->
                        IF titles[i] # <<>> /\ synopses[i] # <<>>
                        THEN titles[i] \o ColonSp \o synopses[i] \o NLNL
                        ELSE <<>>]
        IN /\ Len(synopses) = Len(titles) => description = Flatten(pair)
           /\ Len(synopses) # Len(titles) =>
                 /\ description = Join(synopses, NLNL)
                 /\ \A i \in 1..Len(titles) :
                       titles[i] # <<>> => ~Occurs(titles[i], description)
           /\ (Len(titles) = 2 /\ Len(synopses) = 1) => description = synopses[1]

\* Two story titles, one synopsis, notes: the description is the synopsis.
C10_Witness ==
    /\ last.op = "map_comic_issue_to_metadata"
    /\ last.args.story_titles.v = << <<"A">>, <<"B">> >>
    /\ last.args.synopses.v = << <<"x">> >>
    /\ last.args.issue_notes = <<"n">>
    /\ last.val.description = <<"x">>

\* The first n texts of a list, each but the first preceded by "; ".
RECURSIVE SemiJoined(_, _)
SemiJoined(texts, n) ==
    IF n = 0 THEN <<>>
    ELSE IF n = 1 THEN texts[1]
    ELSE SemiJoined(texts, n - 1) \o <<";", " ">> \o texts[n]

\* C11: in _map_comic_issue_to_metadata the title is the issue title when that
\* is non-empty, else the story titles joined with "; " when there is a story
\* title, else it is not set.
C11_Title ==
    last.op = "map_comic_issue_to_metadata" =>
        LET issue_title == last.args.issue_title
            story_titles == last.args.story_titles.v
            title == last.val.title
        IN /\ issue_title # <<>> => title = Some(issue_title)
           /\ (issue_title = <<>> /\ story_titles # <<>>) =>
                 title = Some(SemiJoined(story_titles, Len(story_titles)))
           /\ (issue_title = <<>> /\ story_titles = <<>>) => title = NULL

\* No issue title and two story titles: the title is "A; B".
C11_Witness ==
    /\ last.op = "map_comic_issue_to_metadata"
    /\ last.args.issue_title = <<>>
    /\ last.args.story_titles.v = << <<"A">>, <<"B">> >>
    /\ last.val.title = Some(<<"A", ";", " ", "B">>)

\* The list-valued optional fields of a shape of _format_gcd_issue.
ListFields(complete) ==
    IF complete THEN {"story_ids", "story_titles", "genres", "synopses", "characters"}
    ELSE {"story_titles", "synopses"}

\* C12: _format_gcd_issue raises no error, and every list-valued optional field
\* of the selected shape whose column is absent or NULL in the row is the empty
\* list in the record.
C12_ListDefaults ==
    last.op = "format_gcd_issue" =>
        LET row == last.args[1]
            complete == last.args[2]
        IN /\ last.err = NoErr
           /\ \A f \in ListFields(complete) :
                 (f \notin DOMAIN row \/ row[f] = NULL) =>
                     (f \in DOMAIN last.val /\ last.val[f] = PyList(<<>>))

\* C13: the issue count fetch_issues_in_series compares with the number of
\* cached entries is the count the relational store holds for the series at
\* the time of the call.
C13_AuthoritativeCount ==
    ListCallWithSeries =>
        /\ QuerySeries(store, last.args[1]) # NULL
        /\ last.series[1].count_of_issues = QuerySeries(store, last.args[1])[1].issue_count

\* The callers that have executed CREATE INDEX.
Creators ==
    {p \in DOMAIN calls :
        \E i \in 1..Len(calls[p].log) : calls[p].log[i].what = "create_index"}

\* C14: in every interleaving of calls of check_create_index against one
\* store, CREATE INDEX is executed at most once and no call fails.
C14_NoInterference ==
    /\ Cardinality(Creators) <= 1
    /\ \A p \in DOMAIN calls : calls[p].err = NoErr

\* The year filter of the primary query (gcd.py:358-361) for an optional year.
YearFilter(year) ==
    IF year # NULL /\ year[1] # 0 THEN IntToStr(year[1]) \o <<"%">> ELSE <<"%">>

\* The ids of the issues of a series with a number whose key date passes the
\* year filter, in table order.
MatchingIssueIds(series_id, number, year) ==
    MapSeq(LAMBDA i : i.id,
           SelectSeq(store.issues,
                     LAMBDA i : /\ i.series_id = series_id
                                /\ i.number = number
                                /\ Like(i.key_date, YearFilter(year))))

\* C15: when the with-stories query of fetch_issues_by_series_issue_num_and_year
\* has no rows for the series, the call returns exactly the issues of the series
\* with the requested number whose key date passes the year filter of the
\* primary query: every such issue when no year is given.
C15_FallbackFilter ==
    (/\ last.op = "fetch_issues_by_series_issue_num_and_year"
     /\ last.err = NoErr
     /\ QueryNumYearWithStories(store, 1, IntToStr(last.args[1]),
                                YearFilter(last.args[2])) = <<>>) =>
        MapSeq(LAMBDA md : md.issue_id, last.val)
            = MatchingIssueIds(1, IntToStr(last.args[1]), last.args[2])

\* C16: a call in which a query failed ends with the one TalkerDataError of that
\* failure, sub-kind 1 for a sqlite3.DataError and 0 for any other sqlite3.Error;
\* the failed query is the last statement of the call, so it is not executed a
\* second time, and the call returns no result.
C16_RelationalFailure ==
    last.failed # <<>> =>
        /\ Len(last.failed) = 1
        /\ last.err = TalkerDataError(IF last.failed[1].kind = "DataError" THEN 1 ELSE 0)
        /\ last.failed[1].at = Len(last.log)
        /\ last.log[Len(last.log)] = Event("query", last.failed[1].what, last.failed[1].id)
        /\ last.val = <<>>

C16_Witness ==
    /\ last.failed # <<>>
    /\ last.failed[1].kind = "DataError"
    /\ last.failed[1].at > 2
    /\ issue_cache # <<>>

\* C17: an issue cached with the complete flag set stays cached with the
\* complete flag set under every call of the talker on an unchanged store, a
\* re-fetch of fetch_issues_in_series for its series included.
C17_CompleteStays ==
    [][(last'.op # "" /\ store' = store) =>
        \A i \in DOMAIN issue_cache :
            issue_cache[i].complete =>
                \E j \in DOMAIN issue_cache' :
                    /\ issue_cache'[j].id = issue_cache[i].id
                    /\ issue_cache'[j].complete]_vars

\* C18: when fetch_issues_in_series has re-fetched a series none of whose issues
\* was cached, and the same call follows at once on the same store, the second
\* call runs no issue query.
C18_SecondCallCached ==
    [][(/\ ListCallWithSeries
        /\ last.err = NoErr
        /\ last.cached = <<>>
        /\ IssueQueries(last.log) # <<>>
        /\ last'.op = last.op
        /\ last'.args = last.args
        /\ last'.repeat
        /\ store' = store) =>
            IssueQueries(last'.log) = <<>>]_vars

\* The call o is a single-issue resolution that failed in the issue query, in a
\* credit query or in the fetch of the issue's cover page.
IssueStageFailure(o) ==
    /\ o.op = "fetch_comic_data"
    /\ \/ /\ o.failed # <<>>
          /\ o.failed[1].what \in {"issue_with_stories", "issue_without_stories",
                                   "issue_credits", "story_credits"}
       \/ /\ o.err.kind = "TalkerNetworkError"
          /\ Len(o.log) >= 2
          /\ o.log[Len(o.log) - 1].what # "series_first_issue"

\* C19: a single-issue resolution that ends with a failure of the issue query,
\* of a credit query or of the cover fetch leaves the issue cache as it was
\* before the call.
C19_FailureKeepsCache ==
    [][IssueStageFailure(last') => issue_cache' = issue_cache]_vars

\* The cover fetch failed after the queries succeeded, and the cache held entries.
C19_Witness ==
    /\ IssueStageFailure(last)
    /\ last.err.kind = "TalkerNetworkError"
    /\ last.failed = <<>>
    /\ issue_cache # <<>>

\* C20: the description of _map_comic_issue_to_metadata does not depend on the
\* issue notes: the record of the call and the record that differs from it only
\* in its notes give the same description, and a record with no story titles
\* and no synopses gives the empty description whatever its notes.
C20_NotesIndependence ==
    last.op = "map_comic_issue_to_metadata" =>
        /\ \A issue_notes \in {<<>>, <<"n">>, <<"m">>} :
              map_comic_issue_to_metadata([last.args EXCEPT !.issue_notes = issue_notes],
                                          SeriesRecord).description
                  = last.val.description
        /\ (last.args.story_titles.v = <<>> /\ last.args.synopses.v = <<>>) =>
                last.val.description = <<>>

\* Notes, no story titles, no synopses: the description is empty.
C20_Witness ==
    /\ last.op = "map_comic_issue_to_metadata"
    /\ last.args.issue_notes = <<"n">>
    /\ last.args.story_titles.v = <<>>
    /\ last.args.synopses.v = <<>>
    /\ last.val.description = <<>>

====
